---------------------------- MODULE Spec2Model ----------------------------
(***************************************************************************)
(* Aurora Vision inverter adapter                                          *)
(* (src/quartz_solar_forecast/inverters/auroravision.py).                  *)
(*                                                                         *)
(* Part 1 models process_aurora_data, the pure reshaping of a vendor       *)
(* payload into timestamp/power rows (SpecTransform).  Part 2 models       *)
(* authenticate_aurora and get_aurora_vision_data as run by a bounded      *)
(* number of concurrent callers against the process environment variable   *)
(* AURORA_ACCESS_TOKEN (Spec, and SpecImported).                           *)
(***************************************************************************)
EXTENDS Integers, Sequences, FiniteSets, TLC

(***************************************************************************)
(* Bounds of the model.                                                    *)
(***************************************************************************)
\* longest `result` list of a payload given to process_aurora_data
MaxEntries == 2
\* concurrent callers of get_aurora_vision_data
NumCallers == 2
\* calls each caller makes
MaxCalls == 2

VARIABLES
    data_json,       \* Part 1: the payload given to process_aurora_data
    frame,           \* Part 1: what process_aurora_data returned or raised
    module_globals,  \* names bound in the module namespace of auroravision.py
    environ,         \* os.environ["AURORA_ACCESS_TOKEN"], None when unset
    pc,              \* per caller: the line its call has reached
    calls,           \* per caller: calls started so far
    ts,              \* per caller: argument ts of the call
    token,           \* per caller: local `token`
    res,             \* per caller: local `res`, the last query response
    outcome,         \* per caller: what the call returned or raised
    cached,          \* history: what os.getenv returned on line 68
    sent,            \* history: the network round trips of the call, in order
    auths,           \* history: the authenticate_aurora invocations of the call
    last_write       \* history: the token line 46 stored last, None if none yet

vars == <<data_json, frame, module_globals, environ, pc, calls, ts, token, res,
          outcome, cached, sent, auths, last_write>>
part1 == <<data_json, frame>>
part2 == <<module_globals, environ, pc, calls, ts, token, res, outcome, cached,
           sent, auths, last_write>>

(***************************************************************************)
(* Part 1: process_aurora_data (lines 50-61).                              *)
(*                                                                         *)
(* A str is a sequence of one-character strings.  A JSON object is a       *)
(* function from its keys; an absent key is absent from the DOMAIN.        *)
(***************************************************************************)

D09 == {"0", "1", "2", "3", "4", "5", "6", "7", "8", "9"}
D19 == D09 \ {"0"}

\* int() of one decimal digit
DigitVal(c) ==
    CASE c = "0" -> 0 [] c = "1" -> 1 [] c = "2" -> 2 [] c = "3" -> 3
      [] c = "4" -> 4 [] c = "5" -> 5 [] c = "6" -> 6 [] c = "7" -> 7
      [] c = "8" -> 8 [] c = "9" -> 9

\* int(text): decimal value of a group's text; int() strips blanks
RECURSIVE IntOf(_)
IntOf(cs) ==
    IF cs = <<>> THEN 0
    ELSE IF cs[Len(cs)] = " " THEN IntOf(SubSeq(cs, 1, Len(cs) - 1))
    ELSE IF cs[1] = " " THEN IntOf(Tail(cs))
    ELSE 10 * IntOf(SubSeq(cs, 1, Len(cs) - 1)) + DigitVal(cs[Len(cs)])

(***************************************************************************)
(* datetime.strptime(s, "%Y%m%d"): the format compiles to the regular      *)
(* expression  (?P<Y>\d\d\d\d)(?P<m>1[0-2]|0[1-9]|[1-9])                     *)
(*             (?P<d>3[0-1]|[1-2]\d|0[1-9]|[1-9]| [1-9])                     *)
(* matched at the start of s.  A group is a sequence of alternatives in    *)
(* priority order; an alternative is a sequence of character classes.      *)
(***************************************************************************)
RE_Y == << <<D09, D09, D09, D09>> >>
RE_m == << <<{"1"}, {"0", "1", "2"}>>, <<{"0"}, D19>>, <<D19>> >>
RE_d == << <<{"3"}, {"0", "1"}>>, <<{"1", "2"}, D09>>, <<{"0"}, D19>>,
           <<D19>>, <<{" "}, D19>> >>
FormatRegex == <<RE_Y, RE_m, RE_d>>

\* alternative alt matches s at position p
AltMatches(alt, s, p) ==
    /\ p + Len(alt) - 1 <= Len(s)
    /\ \A i \in 1..Len(alt) : s[p + i - 1] \in alt[i]

\* Backtracking match of groups g.. of the regex at position p of s:
\* <<TRUE, texts of the groups, position after the match>> for the first
\* alternative, in priority order, after which the rest of the regex matches;
\* <<FALSE, <<>>, p>> if there is none.
RECURSIVE ReMatch(_, _, _, _)
RECURSIVE ReTryAlt(_, _, _, _, _)
ReMatch(re, g, s, p) ==
    IF g > Len(re) THEN <<TRUE, <<>>, p>>
    ELSE ReTryAlt(re, g, s, p, 1)
ReTryAlt(re, g, s, p, a) ==
    IF a > Len(re[g]) THEN <<FALSE, <<>>, p>>
    ELSE LET alt == re[g][a] IN
         IF ~AltMatches(alt, s, p) THEN ReTryAlt(re, g, s, p, a + 1)
         ELSE LET rest == ReMatch(re, g + 1, s, p + Len(alt)) IN
              IF rest[1]
              THEN <<TRUE, <<SubSeq(s, p, p + Len(alt) - 1)>> \o rest[2], rest[3]>>
              ELSE ReTryAlt(re, g, s, p, a + 1)

IsLeap(y) == (y % 4 = 0 /\ y % 100 # 0) \/ y % 400 = 0

DaysInMonth(y, m) ==
    IF m = 2 THEN (IF IsLeap(y) THEN 29 ELSE 28)
    ELSE IF m \in {4, 6, 9, 11} THEN 30 ELSE 31

\* datetime.strptime(s, "%Y%m%d").replace(tzinfo=timezone.utc) (line 56):
\* the timestamp, or the exception raised.
Strptime(s) ==
    LET found == ReMatch(FormatRegex, 1, s, 1) IN
    IF ~found[1]
    THEN [ok |-> FALSE, exc |-> "ValueError", value |-> <<>>]   \* does not match format
    ELSE IF found[3] # Len(s) + 1
    THEN [ok |-> FALSE, exc |-> "ValueError", value |-> <<>>]   \* unconverted data remains
    ELSE LET year  == IntOf(found[2][1])
             month == IntOf(found[2][2])
             day   == IntOf(found[2][3])
         IN IF /\ year \in 1..9999   \* datetime.MINYEAR..MAXYEAR
               /\ day \in 1..DaysInMonth(year, month)
            THEN [ok |-> TRUE, exc |-> "",
                  value |-> <<year, month, day, 0, 0, 0, "UTC">>]
            ELSE [ok |-> FALSE, exc |-> "ValueError", value |-> <<>>]  \* out of range

HoursPerDay == 24

RECURSIVE GCD(_, _)
GCD(a, b) == IF b = 0 THEN a ELSE GCD(b, a % b)

\* Mutant of TrueDiv: floor division (x // 24) in place of true division
TrueDivFloor(x, d) == <<x \div d, 1>>

\* x / 24.0 (line 57) for an integer x >= 0, as the exact fraction in lowest
\* terms <<numerator, denominator>>
TrueDiv(x, d) ==
    LET g == GCD(x, d) IN <<x \div g, d \div g>>

\* dict.get(key, default)
DictGet(d, key, default) == IF key \in DOMAIN d THEN d[key] ELSE default

\* One element of the list comprehension (lines 55-58): the row of an entry,
\* or the exception its evaluation raises.  entry["date"] raises KeyError
\* when the key is absent; the timestamp is evaluated before power_kw.
EntryRecord(entry) ==
    IF "date" \notin DOMAIN entry
    THEN [ok |-> FALSE, exc |-> "KeyError", value |-> <<>>]
    ELSE LET timestamp == Strptime(entry["date"]) IN
         IF ~timestamp.ok THEN timestamp
         ELSE [ok |-> TRUE, exc |-> "",
               value |-> [timestamp |-> timestamp.value,
                          power_kw  |-> TrueDiv(DictGet(entry, "dailyProduction", 0),
                                                HoursPerDay)]]

\* The comprehension over the entries in order (lines 54-60): the rows so
\* far, abandoned at the first entry that raises.
RECURSIVE Comprehension(_, _, _)
Comprehension(entries, i, rows) ==
    IF i > Len(entries) THEN [ok |-> TRUE, exc |-> "", value |-> rows]
    ELSE LET r == EntryRecord(entries[i]) IN
         IF ~r.ok THEN [ok |-> FALSE, exc |-> r.exc, value |-> <<>>]
         ELSE Comprehension(entries, i + 1, Append(rows, r.value))

\* process_aurora_data(data) (lines 50-61): the DataFrame as the
\* sequence of its rows [timestamp, power_kw], or the exception raised.
process_aurora_data(data) ==
    Comprehension(DictGet(data, "result", <<>>), 1, <<>>)


(***************************************************************************)
(* Part 2: authenticate_aurora (lines 31-47) and get_aurora_vision_data    *)
(* (lines 64-94).                                                          *)
(***************************************************************************)

Callers == 1..NumCallers

\* Python's None, as returned by os.getenv for an unset variable
None == "None"

\* `not token` (line 69): None and the empty str are both falsy
Falsy(x) == x = None \/ x = ""

\* Names the import statements (lines 1-11) and the definitions of the module
\* bind.  Line 36 reads `base64`, which no statement of the module binds.
ShippedGlobals ==
    {"http", "os", "Optional", "pd", "json", "datetime", "timedelta", "timezone",
     "AbstractInverter", "Field", "BaseSettings", "SettingsConfigDict",
     "AuroraVisionSettings", "AuroraVisionInverter", "authenticate_aurora",
     "process_aurora_data", "get_aurora_vision_data"}

\* settings.plant_id (line 20), an opaque str
plant_id == "plant"

\* HTTP status codes the code distinguishes (lines 41, 82, 88)
HTTP_OK == 200
HTTP_UNAUTHORIZED == 401

\* What the authentication endpoint may answer: 200 with {"result": token},
\* or a status other than 200.
AuthTokens == {"tokA", "tokB"}
AuthReplies ==
    [status : {HTTP_OK}, result : AuthTokens]
      \cup [status : {403, 500}, result : {None}]

\* Values AURORA_ACCESS_TOKEN may hold when the process starts
InitialEnviron == {None, "", "stale"}

\* Response bodies of the production query: JSON text (valid_json) holding a
\* payload, or text that is not JSON.
C(a, b, c, d, e, f, g, h) == <<a, b, c, d, e, f, g, h>>
Jan01 == C("2", "0", "2", "4", "0", "1", "0", "1")
Dec31 == C("2", "0", "2", "3", "1", "2", "3", "1")
GoodBody  == [valid_json |-> TRUE,
              json |-> [result |-> <<[date |-> Jan01, dailyProduction |-> 240]>>]]
NoDateBody == [valid_json |-> TRUE,
               json |-> [result |-> <<[date |-> Jan01], [dailyProduction |-> 36]>>]]
NotJsonBody == [valid_json |-> FALSE, json |-> <<>>]
EmptyBody == [valid_json |-> FALSE, json |-> <<>>]
QueryReplies ==
    [status : {HTTP_OK}, body : {GoodBody, NoDateBody, NotJsonBody}]
      \cup [status : {HTTP_UNAUTHORIZED, 500}, body : {EmptyBody}]

\* Days a call may be made for, as <<year, month, day>>
Days == {<<2024, 1, 1>>, <<2023, 12, 31>>}

DigitChar(d) ==
    CASE d = 0 -> "0" [] d = 1 -> "1" [] d = 2 -> "2" [] d = 3 -> "3"
      [] d = 4 -> "4" [] d = 5 -> "5" [] d = 6 -> "6" [] d = 7 -> "7"
      [] d = 8 -> "8" [] d = 9 -> "9"

\* n in decimal, zero-padded to width w
RECURSIVE Zfill(_, _)
Zfill(n, w) ==
    IF w = 0 THEN <<>> ELSE Append(Zfill(n \div 10, w - 1), DigitChar(n % 10))

\* ts.strftime("%Y%m%d") (line 72)
Strftime(t) == Zfill(t[1], 4) \o Zfill(t[2], 2) \o Zfill(t[3], 2)

\* url (line 77): the plant and the startDate/endDate query parameters
Url(t) == <<"dailyProduction", plant_id, Strftime(t), Strftime(t)>>

NoResponse == [status |-> 0, body |-> EmptyBody]
NoOutcome == [kind |-> "none", exc |-> "", status |-> 0, value |-> <<>>]
Raise(exc, status) == [kind |-> "raise", exc |-> exc, status |-> status, value |-> <<>>]
Return(value) == [kind |-> "return", exc |-> "", status |-> 0, value |-> value]

\* The exceptions the code raises.  Lines 42 and 89 raise a plain Exception
\* whose message carries the status; they are told apart by the message.
AuthenticationError == "Exception: Authentication failed with status"
FetchError == "Exception: Failed to fetch data: HTTP"
NameError == "NameError: name 'base64' is not defined"
JSONDecodeError == "JSONDecodeError"

InitPart1Idle ==
    /\ data_json = [result |-> <<>>]
    /\ frame = NoOutcome

InitPart2(globals) ==
    /\ module_globals = globals
    /\ environ \in InitialEnviron
    /\ pc = [p \in Callers |-> "idle"]
    /\ calls = [p \in Callers |-> 0]
    /\ ts = [p \in Callers |-> <<2024, 1, 1>>]
    /\ token = [p \in Callers |-> None]
    /\ res = [p \in Callers |-> NoResponse]
    /\ outcome = [p \in Callers |-> NoOutcome]
    /\ cached = [p \in Callers |-> None]
    /\ sent = [p \in Callers |-> <<>>]
    /\ auths = [p \in Callers |-> <<>>]
    /\ last_write = None

\* The module as shipped
Init == InitPart1Idle /\ InitPart2(ShippedGlobals)

\* A caller invokes get_aurora_vision_data(settings, ts) (line 64; through
\* AuroraVisionInverter.get_data, lines 27-28).
Call(p) ==
    /\ pc[p] \in {"idle", "done"}
    /\ calls[p] < MaxCalls
    /\ \E day \in Days : ts' = [ts EXCEPT ![p] = day]
    /\ pc' = [pc EXCEPT ![p] = "L68"]
    /\ calls' = [calls EXCEPT ![p] = @ + 1]
    /\ token' = [token EXCEPT ![p] = None]
    /\ res' = [res EXCEPT ![p] = NoResponse]
    /\ outcome' = [outcome EXCEPT ![p] = NoOutcome]
    /\ cached' = [cached EXCEPT ![p] = None]
    /\ sent' = [sent EXCEPT ![p] = <<>>]
    /\ auths' = [auths EXCEPT ![p] = <<>>]
    /\ UNCHANGED <<part1, module_globals, environ, last_write>>

\* Lines 68-69: token = os.getenv(...); `if not token` chooses line 70 or
\* goes on to the query (lines 72-79).
GetToken(p) ==
    /\ pc[p] = "L68"
    /\ token' = [token EXCEPT ![p] = environ]
    /\ cached' = [cached EXCEPT ![p] = environ]
    /\ pc' = [pc EXCEPT ![p] = IF Falsy(environ) THEN "L70" ELSE "L79"]
    /\ UNCHANGED <<part1, module_globals, environ, calls, ts, res, outcome, sent,
                   auths, last_write>>

\* authenticate_aurora(settings) (lines 31-47), called from line 70 or line
\* 83, against an endpoint that answers `reply` to a request.  Line 36
\* evaluates base64.b64encode(...) before line 38 sends the request: with
\* `base64` unbound it raises NameError and nothing is sent.  Otherwise the
\* request is sent; a status other than 200 raises (line 42); on 200 the
\* token of the body is stored in os.environ (line 46) and returned.
authenticate_aurora(p, reply) ==
    LET request == [kind |-> "auth", url |-> <<"authenticate">>, token |-> None,
                    status |-> reply.status]
        invocation == [site |-> pc[p], endpoint |-> reply]
    IN
    IF "base64" \notin module_globals
    THEN /\ outcome' = [outcome EXCEPT ![p] = Raise(NameError, 0)]
         /\ auths' = [auths EXCEPT ![p] =
                Append(@, [call |-> invocation, requested |-> FALSE,
                           raised |-> NameError, status |-> 0,
                           returned |-> None, stored |-> None])]
         /\ pc' = [pc EXCEPT ![p] = "done"]
         /\ UNCHANGED <<environ, token, sent, last_write>>
    ELSE IF reply.status # HTTP_OK
    THEN /\ outcome' = [outcome EXCEPT ![p] = Raise(AuthenticationError, reply.status)]
         /\ auths' = [auths EXCEPT ![p] =
                Append(@, [call |-> invocation, requested |-> TRUE,
                           raised |-> AuthenticationError, status |-> reply.status,
                           returned |-> None, stored |-> None])]
         /\ sent' = [sent EXCEPT ![p] = Append(@, request)]
         /\ pc' = [pc EXCEPT ![p] = "done"]
         /\ UNCHANGED <<environ, token, last_write>>
    ELSE /\ environ' = reply.result
         /\ last_write' = reply.result
         /\ token' = [token EXCEPT ![p] = reply.result]
         /\ auths' = [auths EXCEPT ![p] =
                Append(@, [call |-> invocation, requested |-> TRUE,
                           raised |-> "", status |-> 0,
                           returned |-> reply.result, stored |-> reply.result])]
         /\ sent' = [sent EXCEPT ![p] = Append(@, request)]
         /\ pc' = [pc EXCEPT ![p] = IF pc[p] = "L70" THEN "L79" ELSE "L85"]
         /\ UNCHANGED outcome

\* Line 70 and line 83: token = authenticate_aurora(settings)
Authenticate(p) ==
    /\ pc[p] \in {"L70", "L83"}
    /\ \E reply \in AuthReplies : authenticate_aurora(p, reply)
    /\ UNCHANGED <<part1, module_globals, calls, ts, res, cached>>

\* Mutant of AfterQuery: the test of line 82 inverted (status != 401)
AfterQueryInverted(site, status) ==
    IF site = "L79" /\ status # HTTP_UNAUTHORIZED THEN "L83" ELSE "L88"

\* Line 82, after the first query (site L79): a 401 goes to the forced
\* authentication of line 83, everything else to line 88.  The retry (site
\* L85) is followed by line 88 whatever its status.
AfterQuery(site, status) ==
    IF site = "L79" /\ status = HTTP_UNAUTHORIZED THEN "L83" ELSE "L88"

\* Lines 79-80 and lines 84-86: the production query with the local token in
\* the X-AuroraVision-Token header, and its response.
Query(p) ==
    /\ pc[p] \in {"L79", "L85"}
    /\ \E reply \in QueryReplies :
          /\ res' = [res EXCEPT ![p] = reply]
          /\ pc' = [pc EXCEPT ![p] = AfterQuery(pc[p], reply.status)]
          /\ sent' = [sent EXCEPT ![p] =
                Append(@, [kind |-> "query", url |-> Url(ts[p]), token |-> token[p],
                           status |-> reply.status])]
    /\ UNCHANGED <<part1, module_globals, environ, calls, ts, token, outcome,
                   cached, auths, last_write>>

\* Mutant of Respond: the status test of line 88 left out
RespondUnchecked(r) ==
    IF ~r.body.valid_json THEN Raise(JSONDecodeError, 0)
    ELSE LET df == process_aurora_data(r.body.json) IN
         IF df.ok THEN Return(df.value) ELSE Raise(df.exc, 0)

\* Lines 88-94: a status other than 200 raises; otherwise the body is parsed
\* (json.loads) and given to process_aurora_data, whose result is returned
\* and whose exception propagates.
Respond(r) ==
    IF r.status # HTTP_OK THEN Raise(FetchError, r.status)
    ELSE IF ~r.body.valid_json THEN Raise(JSONDecodeError, 0)
    ELSE LET df == process_aurora_data(r.body.json) IN
         IF df.ok THEN Return(df.value) ELSE Raise(df.exc, 0)

Finish(p) ==
    /\ pc[p] = "L88"
    /\ outcome' = [outcome EXCEPT ![p] = Respond(res[p])]
    /\ pc' = [pc EXCEPT ![p] = "done"]
    /\ UNCHANGED <<part1, module_globals, environ, calls, ts, token, res, cached,
                   sent, auths, last_write>>

Next ==
    \E p \in Callers :
        \/ Call(p)
        \/ GetToken(p)
        \/ Authenticate(p)
        \/ Query(p)
        \/ Finish(p)

Spec == Init /\ [][Next]_vars

\* The module with `base64` bound in its namespace, which the shipped module
\* never is: under SpecImported lines 38-47 are reached.  It serves to tell
\* what rests on the unbound name alone; no property is settled under it.
InitImported == InitPart1Idle /\ InitPart2(ShippedGlobals \cup {"base64"})
SpecImported == InitImported /\ [][Next]_vars

(***************************************************************************)
(* Part 1 as a specification: a payload is drawn, process_aurora_data is   *)
(* applied to it.                                                          *)
(***************************************************************************)
Space == " "
Dash == "-"
DateInputs ==
    { Jan01,                                             \* 20240101
      Dec31,                                             \* 20231231
      C("2", "0", "2", "4", "0", "2", "2", "9"),         \* 20240229, a leap day
      C("2", "0", "2", "3", "0", "2", "2", "9"),         \* 20230229, no such day
      C("2", "0", "2", "4", "1", "3", "0", "1"),         \* 20241301, no such month
      C("2", "0", "2", "4", Dash, "0", "1", "1"),        \* 2024-011
      <<"2", "0", "2", "4", "0", "1", "1">>,             \* 2024011, 7 characters
      <<"2", "0", "2", "4", "1", "1", "1">>,             \* 2024111
      <<"2", "0", "2", "4", "1", "1", "0">>,             \* 2024110
      C("2", "0", "2", "4", "0", "1", Space, "1"),       \* 202401 1
      C("2", "0", "2", "4", "1", "1", "3", "1"),         \* 20241131, no such day
      <<>> }                                             \* the empty str
ProductionInputs == {0, 36, 240}

Entries ==
    [date : DateInputs, dailyProduction : ProductionInputs]
      \cup [date : DateInputs]
      \cup [dailyProduction : ProductionInputs]
      \cup {[other |-> 0]}

ResultLists == UNION {[1..n -> Entries] : n \in 0..MaxEntries}

Payloads == [result : ResultLists] \cup {[other |-> 0]}

InitPart2Idle ==
    /\ InitPart2(ShippedGlobals)
    /\ environ = None

InitTransform ==
    /\ data_json \in Payloads
    /\ frame = NoOutcome
    /\ InitPart2Idle

Transform ==
    /\ frame = NoOutcome
    /\ frame' = (LET df == process_aurora_data(data_json) IN
                 IF df.ok THEN Return(df.value) ELSE Raise(df.exc, 0))
    /\ UNCHANGED <<data_json, part2>>

NextTransform == Transform

SpecTransform == InitTransform /\ [][NextTransform]_vars


(***************************************************************************)
(* Properties of process_aurora_data, checked under SpecTransform.         *)
(***************************************************************************)

\* The `result` list of the payload, empty when the key is absent
ResultOf(data) == IF "result" \in DOMAIN data THEN data["result"] ELSE <<>>

\* Decimal value of the characters i..j of s, all digits
RECURSIVE Decimal(_, _, _)
Decimal(s, i, j) ==
    IF j < i THEN 0 ELSE 10 * Decimal(s, i, j - 1) + DigitVal(s[j])

AllDigits(s, i, j) == \A k \in i..j : s[k] \in D09

ValidDay(y, m, d) == y >= 1 /\ m \in 1..12 /\ d \in 1..DaysInMonth(y, m)

\* s is YYYYMMDD: eight digits naming a day of the calendar
WellFormedDate(s) ==
    /\ Len(s) = 8
    /\ AllDigits(s, 1, 8)
    /\ ValidDay(Decimal(s, 1, 4), Decimal(s, 5, 6), Decimal(s, 7, 8))

\* The day a well-formed date names, at midnight UTC
MidnightUTC(s) ==
    <<Decimal(s, 1, 4), Decimal(s, 5, 6), Decimal(s, 7, 8), 0, 0, 0, "UTC">>

HasWellFormedDate(entry) == "date" \in DOMAIN entry /\ WellFormedDate(entry["date"])

ProductionOf(entry) ==
    IF "dailyProduction" \in DOMAIN entry THEN entry["dailyProduction"] ELSE 0

ParseErrors == {"KeyError", "ValueError"}

Transformed == frame.kind # "none"

\* C6: for a payload whose N entries all have a well-formed date, the
\* transformation yields exactly N rows in input order; row i has the
\* timestamp of entry i's date at midnight UTC and power_kw equal to entry
\* i's dailyProduction / 24, an absent dailyProduction counting as 0 (power_kw
\* 0.0); date 20240101 with dailyProduction 240 gives power_kw 10.0.
C6_TransformationCorrect ==
    LET entries == ResultOf(data_json) IN
    (Transformed /\ \A i \in 1..Len(entries) : HasWellFormedDate(entries[i]))
    => /\ frame.kind = "return"
       /\ Len(frame.value) = Len(entries)
       /\ \A i \in 1..Len(entries) :
            LET row == frame.value[i]
                e == entries[i]
            IN /\ row.timestamp = MidnightUTC(e["date"])
               /\ row.power_kw[2] > 0
               /\ row.power_kw[1] * 24 = ProductionOf(e) * row.power_kw[2]
               /\ ("dailyProduction" \notin DOMAIN e => row.power_kw = <<0, 1>>)
               /\ (e = [date |-> Jan01, dailyProduction |-> 240]
                     => row = [timestamp |-> <<2024, 1, 1, 0, 0, 0, "UTC">>,
                               power_kw |-> <<10, 1>>])

\* C6 witness: two different well-formed entries, the second without a
\* dailyProduction, have been transformed into two rows.
C6_Witness ==
    /\ frame.kind = "return"
    /\ Len(frame.value) = 2
    /\ data_json["result"][1] = [date |-> Jan01, dailyProduction |-> 240]
    /\ data_json["result"][2] = [date |-> Dec31]

\* C7 as claimed: if any entry lacks a date or has one that is not a
\* well-formed YYYYMMDD date, the transformation fails with a parse error and
\* yields no table.
C7_AnyMalformedDateAborts ==
    LET entries == ResultOf(data_json) IN
    (Transformed /\ \E i \in 1..Len(entries) : ~HasWellFormedDate(entries[i]))
    => /\ frame.kind = "raise"
       /\ frame.exc \in ParseErrors
       /\ frame.value = <<>>

\* Texts strptime's %m and %d stand for: a month or day written with one or
\* two digits, a one-digit day possibly preceded by a blank.
MonthText(t) ==
    /\ Len(t) \in 1..2
    /\ AllDigits(t, 1, Len(t))
    /\ t[1] # "0" \/ Len(t) = 2
    /\ Decimal(t, 1, Len(t)) \in 1..12
DayText(t) ==
    \/ /\ Len(t) \in 1..2
       /\ AllDigits(t, 1, Len(t))
       /\ t[1] # "0" \/ Len(t) = 2
       /\ Decimal(t, 1, Len(t)) \in 1..31
    \/ Len(t) = 2 /\ t[1] = " " /\ t[2] \in D19
DayValue(t) == IF t[1] = " " THEN DigitVal(t[2]) ELSE Decimal(t, 1, Len(t))

\* s is a four-digit year followed by a month text and a day text that name a
\* day of the calendar
ReadableDate(s) ==
    \E k \in 1..2, l \in 1..2 :
        /\ Len(s) = 4 + k + l
        /\ AllDigits(s, 1, 4)
        /\ MonthText(SubSeq(s, 5, 4 + k))
        /\ DayText(SubSeq(s, 5 + k, 4 + k + l))
        /\ ValidDay(Decimal(s, 1, 4), Decimal(s, 5, 4 + k),
                    DayValue(SubSeq(s, 5 + k, 4 + k + l)))

HasReadableDate(entry) == "date" \in DOMAIN entry /\ ReadableDate(entry["date"])

\* What the code does hold to where C7 fails: if any entry lacks a date or
\* has one that is not a readable date (a four-digit year, then a month and a
\* day of one or two characters each), the transformation fails with a parse
\* error and yields no table, wherever the entry sits; a returned table has
\* one row per entry, and a date of eight digits in it is well-formed.
UnreadableDateAborts ==
    LET entries == ResultOf(data_json) IN
    Transformed =>
      /\ (\E i \in 1..Len(entries) : ~HasReadableDate(entries[i]))
           => /\ frame.kind = "raise"
              /\ frame.exc \in ParseErrors
              /\ frame.value = <<>>
      /\ frame.kind = "return"
           => /\ Len(frame.value) = Len(entries)
              /\ \A i \in 1..Len(entries) :
                   /\ "date" \in DOMAIN entries[i]
                   /\ (Len(entries[i]["date"]) = 8 /\ AllDigits(entries[i]["date"], 1, 8))
                        => WellFormedDate(entries[i]["date"])

\* A well-formed entry followed by an entry without a date has made the
\* whole transformation fail.
AbortsAfterGoodEntry ==
    /\ frame.kind = "raise"
    /\ Len(ResultOf(data_json)) = 2
    /\ HasWellFormedDate(data_json["result"][1])
    /\ "date" \notin DOMAIN data_json["result"][2]


(***************************************************************************)
(* Properties of get_aurora_vision_data and authenticate_aurora, checked   *)
(* under Spec (the module as shipped).                                     *)
(***************************************************************************)

IsQuery(r) == r.kind = "query"
IsAuth(r) == r.kind = "auth"

\* The production queries and the authentication requests of p's call
Queries(p) == SelectSeq(sent[p], IsQuery)
AuthRequests(p) == SelectSeq(sent[p], IsAuth)

\* The invocations of authenticate_aurora from line 83 (the forced refresh)
IsForced(a) == a.call.site = "L83"
Forced(p) == SelectSeq(auths[p], IsForced)

Done(p) == pc[p] = "done"

\* p's call has read the token cache (line 68) and found it empty
SawEmptyCache(p) == pc[p] \notin {"idle", "L68"} /\ Falsy(cached[p])
\* p's call has read the token cache and found a token in it
SawCachedToken(p) == pc[p] \notin {"idle", "L68"} /\ ~Falsy(cached[p])

IsPrefix(a, b) == Len(a) <= Len(b) /\ \A i \in 1..Len(a) : a[i] = b[i]

\* C1: a call whose first production query is answered 401, with the
\* authentication endpoint answering 200, re-authenticates once and reissues
\* the query exactly once; a 401 on the retry fails the call with a
\* FetchError carrying 401; no call issues more than two production queries.
C1_RetryOnceOn401 ==
    \A p \in Callers :
        /\ Len(Queries(p)) <= 2
        /\ (/\ Done(p)
            /\ Len(Queries(p)) >= 1
            /\ Queries(p)[1].status = HTTP_UNAUTHORIZED
            /\ \E i \in 1..Len(Forced(p)) :
                   Forced(p)[i].call.endpoint.status = HTTP_OK)
           => /\ Len(Forced(p)) = 1
              /\ Len(Queries(p)) = 2
              /\ Queries(p)[2].status = HTTP_UNAUTHORIZED
                   => outcome[p] = Raise(FetchError, HTTP_UNAUTHORIZED)

\* C2: a call that found a token in the cache and whose production query is
\* answered 200 makes exactly one network request, the query carrying the
\* cached token, and never invokes authenticate_aurora.
C2_TokenReuse ==
    \A p \in Callers :
        (/\ SawCachedToken(p)
         /\ Len(Queries(p)) >= 1
         /\ Queries(p)[1].status = HTTP_OK)
        => /\ sent[p] = <<[kind |-> "query", url |-> Url(ts[p]),
                           token |-> cached[p], status |-> HTTP_OK]>>
           /\ auths[p] = <<>>

\* C2 witness: a call that found the token "stale" cached has finished with
\* a table after one query answered 200.
C2_Witness ==
    \E p \in Callers :
        /\ Done(p)
        /\ cached[p] = "stale"
        /\ Len(sent[p]) = 1
        /\ sent[p][1].status = HTTP_OK
        /\ outcome[p].kind = "return"

\* C3: an invocation of authenticate_aurora against an endpoint answering a
\* status other than 200 raises the AuthenticationError carrying that status,
\* after a single request, returns no token and stores none in the cache; the
\* error ends the fetch that made the invocation.
C3_AuthFailurePropagates ==
    \A p \in Callers : \A i \in 1..Len(auths[p]) :
        LET a == auths[p][i] IN
        a.call.endpoint.status # HTTP_OK
        => /\ a.requested
           /\ a.raised = AuthenticationError
           /\ a.status = a.call.endpoint.status
           /\ a.returned = None
           /\ a.stored = None
           /\ Len(AuthRequests(p)) = Len(auths[p])
           /\ i = Len(auths[p])
           /\ Done(p)
           /\ outcome[p] = Raise(AuthenticationError, a.call.endpoint.status)

\* C4: an invocation of authenticate_aurora against an endpoint answering 200
\* with token T returns T and stores T in the token cache; the cache holds
\* the token stored last, which is what a later fetch reads from it.
C4_AuthSuccessCaches ==
    /\ \A p \in Callers : \A i \in 1..Len(auths[p]) :
          LET a == auths[p][i] IN
          a.call.endpoint.status = HTTP_OK
          => /\ a.raised = ""
             /\ a.returned = a.call.endpoint.result
             /\ a.stored = a.call.endpoint.result
    /\ last_write # None => environ = last_write
    /\ \A p \in Callers :
          (pc[p] \in {"L70", "L79"} /\ auths[p] = <<>>) => token[p] = cached[p]

\* C5: a finished call returned a table only if its last production query
\* was answered 200, and the table is the transformation of that response's
\* body; if the last query was answered anything else, other than a first
\* 401, the call raised the FetchError carrying that status.
C5_OutcomeByFinalStatus ==
    \A p \in Callers :
        Done(p) =>
          LET q == Queries(p) IN
          /\ outcome[p].kind # "none"
          /\ outcome[p].kind = "return"
               => /\ Len(q) >= 1
                  /\ q[Len(q)].status = HTTP_OK
                  /\ res[p].status = HTTP_OK
                  /\ res[p].body.valid_json
                  /\ process_aurora_data(res[p].body.json).ok
                  /\ outcome[p].value = process_aurora_data(res[p].body.json).value
          /\ (/\ Len(q) >= 1
              /\ q[Len(q)].status # HTTP_OK
              /\ ~(Len(q) = 1 /\ q[1].status = HTTP_UNAUTHORIZED))
               => /\ res[p].status = q[Len(q)].status
                  /\ outcome[p] = Raise(FetchError, q[Len(q)].status)

\* C5 witness: one call has returned the table of a 200 response and another
\* has failed with the FetchError of a 500 response.
C5_Witness ==
    \E p, q \in Callers :
        /\ Done(p) /\ outcome[p].kind = "return" /\ Len(outcome[p].value) = 1
        /\ Done(q) /\ outcome[q] = Raise(FetchError, 500)

\* C8: after a 401 on its first query a call invokes authenticate_aurora
\* whatever the cache holds; with the endpoint answering 200 it reissues the
\* same request once, carrying the new token and not the rejected one; and
\* when the call has ended the rejected token is no longer in the token cache,
\* also when the forced authentication failed.
C8_RejectedTokenDiscarded ==
    \A p \in Callers :
        (Done(p) /\ Len(Queries(p)) >= 1 /\ Queries(p)[1].status = HTTP_UNAUTHORIZED)
        => /\ Len(Forced(p)) = 1
           /\ Forced(p)[1].call.endpoint.status = HTTP_OK
                => /\ Len(Queries(p)) = 2
                   /\ Queries(p)[2].url = Queries(p)[1].url
                   /\ Queries(p)[2].token = Forced(p)[1].call.endpoint.result
           /\ environ # Queries(p)[1].token

\* C9: the network requests of a call are a prefix of auth, query, auth,
\* query, the first auth being there exactly when the cache was empty at
\* entry; a second auth comes only right after a first query answered 401; a
\* query carries a token; at most four requests are made; and a failed
\* authentication ends the call with no further request.
C9_RequestOrdering ==
    \A p \in Callers :
        LET kinds == [i \in 1..Len(sent[p]) |-> sent[p][i].kind] IN
        /\ Len(sent[p]) <= 4
        /\ Len(AuthRequests(p)) <= 2 /\ Len(Queries(p)) <= 2
        /\ pc[p] \notin {"idle", "L68"}
             => IsPrefix(kinds, IF Falsy(cached[p])
                                THEN <<"auth", "query", "auth", "query">>
                                ELSE <<"query", "auth", "query">>)
        /\ (SawEmptyCache(p) /\ pc[p] # "L70")
             => Len(sent[p]) >= 1 /\ sent[p][1].kind = "auth"
        /\ \A i \in 1..Len(sent[p]) :
             /\ (IsAuth(sent[p][i]) /\ i > 1)
                  => /\ IsQuery(sent[p][i - 1])
                     /\ sent[p][i - 1].status = HTTP_UNAUTHORIZED
                     /\ Len(SelectSeq(SubSeq(sent[p], 1, i - 1), IsQuery)) = 1
             /\ IsQuery(sent[p][i]) => ~Falsy(sent[p][i].token)
             /\ (IsAuth(sent[p][i]) /\ sent[p][i].status # HTTP_OK)
                  => i = Len(sent[p]) /\ Done(p)

\* C10: when every caller found the cache empty and the endpoint answered
\* each of them 200, each has sent its own authentication request and the
\* cache holds the token of the authentication that completed last; a query
\* carries only the token the call read from the cache or one its own
\* authentication returned, and a call issues at most two queries.
C10_RacingRefresh ==
    /\ \A p \in Callers :
          /\ Len(Queries(p)) <= 2
          /\ \A i \in 1..Len(sent[p]) :
               IsQuery(sent[p][i])
               => \/ sent[p][i].token = cached[p]
                  \/ \E k \in 1..Len(auths[p]) :
                        /\ auths[p][k].raised = ""
                        /\ auths[p][k].returned = sent[p][i].token
    /\ (\A p \in Callers :
            /\ SawEmptyCache(p) /\ pc[p] # "L70"
            /\ auths[p][1].call.endpoint.status = HTTP_OK)
       => /\ \A p \in Callers : Len(AuthRequests(p)) >= 1
          /\ environ = last_write
          /\ \E p \in Callers : \E k \in 1..Len(auths[p]) :
                auths[p][k].stored = environ

=============================================================================
